---- MODULE Spec2Model ----
(***************************************************************************)
(* Model of the four reporting scripts of the repository:                  *)
(*   g_latest_r.py       monthly Excel report (generate_excel_report, main)*)
(*   g_stack_a_chart.py  stacked this-month / last-month comparison        *)
(*   g_w_e_piechart.py   donut chart + table of the last 7 days            *)
(*   g_weekly_e_r.py     threshold line chart of the last 7 days           *)
(* One behaviour is one run of one script, from interpreter start to       *)
(* termination (normal end, exit(), or an uncaught exception).             *)
(***************************************************************************)
EXTENDS Integers, Sequences, FiniteSets, TLC

\* ------------------------------------------------------------------ bounds
MaxRows == 2          \* rows returned by SELECT * FROM transactions
MaxCategories == 9    \* rows returned by the donut script's GROUP BY query
MaxWindowRows == 1    \* rows returned by each window query of the other charts

\* --------------------------------------------------------- input domains
Scripts == {"g_latest_r", "g_stack_a_chart", "g_w_e_piechart", "g_weekly_e_r"}
Types == {"income", "expense"}
Categories == {"food", "rent"}
Amounts == {1, 2}
\* row[7]: the optional flag; None is the empty tuple, a value v is <<v>>
None == <<>>
OutlierFlags == {None, <<0>>, <<1>>}
\* row[6]: <<year, month>> stands for the text "year-month-01 00:00:00";
\* month 13 is a text that does not match %Y-%m-%d %H:%M:%S
CreatedAts == {<<2026, 10>>, <<2026, 12>>, <<2026, 13>>}
\* datetime.now().strftime("%Y%m") of the run
NowMonths == {202609, 202611}
\* HTTP outcomes of requests.post: a status code, or 0 for a raised
\* requests.ConnectionError
PostOutcomes == {200, 500, 0}

Rows == [type : Types, category : Categories, amount : Amounts,
         created_at : CreatedAts, is_outlier : OutlierFlags]

SeqsUpTo(S, n) == UNION {[1..k -> S] : k \in 0..n}

\* ---------------------------------------------------------------- state
VARIABLES
  script,                  \* which script this run executes
  pc,                      \* position of the run
  error,                   \* the uncaught exception that ended the run, or "none"
  stdout,                  \* the messages printed, in order
  file_exists,             \* the artifact path exists on local disk
  saved,                   \* number of times this run wrote the artifact
  posts,                   \* number of delivery POSTs this run made
  status,                  \* status code of the response (0: none)
  current_month_str,       \* g_latest_r: datetime.now() as YYYYMM
  data,                    \* g_latest_r: the fetched rows
  idx,                     \* g_latest_r: next row of the aggregation loop
  month_data,              \* g_latest_r: month key -> member rows
  monthly_income_expense,  \* g_latest_r: month key -> totals
  summary_rows,            \* g_latest_r: Summary sheet, row r+1 holds summary_rows[r]
  cutoff_row,              \* g_latest_r: last row inside the colour scale
  cf_ranges,               \* g_latest_r: ranges added to conditional_formatting
  expense_by_category,     \* g_latest_r: month key -> category -> subtotal
  nrows,                   \* chart scripts: rows of the (first) window query
  last_nrows,              \* g_stack_a_chart: rows of the last-month query
  wedge_colors,            \* g_w_e_piechart: palette index of each wedge
  row_colors,              \* g_w_e_piechart: palette index of each table row
  today,                   \* g_stack_a_chart: datetime.now() as <<year, month, day>>
  compare_days,            \* g_stack_a_chart: length of the plotted day range
  this_rows,               \* g_stack_a_chart: rows fetched for this month
  last_rows,               \* g_stack_a_chart: rows fetched for last month
  this_data,               \* g_stack_a_chart: category -> series of this month
  last_data                \* g_stack_a_chart: category -> series of last month

vars == <<script, pc, error, stdout, file_exists, saved, posts, status,
          current_month_str, data, idx, month_data, monthly_income_expense,
          summary_rows, cutoff_row, cf_ranges, expense_by_category,
          nrows, last_nrows, wedge_colors, row_colors,
          today, compare_days, this_rows, last_rows, this_data, last_data>>

reportVars == <<current_month_str, data, idx, month_data,
                monthly_income_expense, summary_rows, cutoff_row, cf_ranges,
                expense_by_category>>
stackVars == <<today, compare_days, this_rows, last_rows, this_data, last_data>>
chartVars == <<nrows, last_nrows, wedge_colors, row_colors, stackVars>>
ioVars == <<file_exists, saved, posts, status>>

Terminated == pc \in {"done", "failed"}

\* ------------------------------------------------- g_latest_r: helpers
\* datetime.strptime(row[6], "%Y-%m-%d %H:%M:%S") succeeds
StrptimeOk(s) == s[2] \in 1..12

\* created_at.strftime("%Y%m"); four-digit years, so the string order of the
\* keys is the order of these numbers
MonthStr(s) == s[1] * 100 + s[2]

\* is_outlier = row[7] if row[7] is not None else 0
IsOutlierOf(row) == IF row.is_outlier = None THEN 0 ELSE row.is_outlier[1]

ZeroTotals == [income |-> 0, expense_clean |-> 0, expense_outlier |-> 0]

AddRowDropOutlier(totals, row) ==
  IF row.type = "expense"
  THEN IF IsOutlierOf(row) = 1
       THEN totals
       ELSE [totals EXCEPT !.expense_clean = @ + row.amount]
  ELSE [totals EXCEPT !.income = @ + row.amount]

AddRowIncomeFlagged(totals, row) ==
  IF row.type = "expense"
  THEN IF IsOutlierOf(row) = 1
       THEN [totals EXCEPT !.expense_outlier = @ + row.amount]
       ELSE [totals EXCEPT !.expense_clean = @ + row.amount]
  ELSE IF IsOutlierOf(row) = 1
       THEN totals
       ELSE [totals EXCEPT !.income = @ + row.amount]

\* lines 111-120: route the amount of one row into the month's totals
AddRow(totals, row) ==
  IF row.type = "expense"
  THEN IF IsOutlierOf(row) = 1
       THEN [totals EXCEPT !.expense_outlier = @ + row.amount]
       ELSE [totals EXCEPT !.expense_clean = @ + row.amount]
  ELSE [totals EXCEPT !.income = @ + row.amount]

InBreakdownAnyExpense(row) == row.type = "expense"

\* line 177: the row takes part in the month's category breakdown
InBreakdown(row) ==
  row.type = "expense" /\ (row.is_outlier = None \/ row.is_outlier[1] = 0)

RECURSIVE ExpenseByCategory(_)
\* lines 175-179: expense_by_category of one month's rows; a category gets a
\* key only when a row of the breakdown names it
ExpenseByCategory(rows) ==
  IF rows = <<>> THEN <<>>
  ELSE LET n == Len(rows)
           acc == ExpenseByCategory(SubSeq(rows, 1, n - 1))
           row == rows[n]
       IN IF InBreakdown(row)
          THEN [c \in DOMAIN acc \cup {row.category} |->
                  IF c = row.category
                  THEN (IF c \in DOMAIN acc THEN acc[c] ELSE 0) + row.amount
                  ELSE acc[c]]
          ELSE acc

RECURSIVE SortedKeys(_)
\* sorted(monthly_income_expense.items()): the keys in ascending order
SortedKeys(S) ==
  IF S = {} THEN <<>>
  ELSE LET m == CHOOSE x \in S : \A y \in S : x <= y
       IN <<m>> \o SortedKeys(S \ {m})

RECURSIVE CutoffRow(_, _, _, _)
\* lines 137-141: scan rows 2..max_row and keep the last row whose month key
\* is <= current_month_str; r is the row being scanned, cut the value so far
\* (line 137 starts it at 1)
CutoffRow(rows, cur, r, cut) ==
  IF r > Len(rows) + 1 THEN cut
  ELSE CutoffRow(rows, cur, r + 1, IF rows[r - 1] <= cur THEN r ELSE cut)

\* the sheet rows a stored range <<column, a, b>>, the string
\* "<column><a>:<column><b>", covers: a cell range is the rectangle between
\* its two corner cells
RangeRows(rg) ==
  {r \in 1..(Len(summary_rows) + 1) :
     /\ r >= (IF rg[2] <= rg[3] THEN rg[2] ELSE rg[3])
     /\ r <= (IF rg[2] <= rg[3] THEN rg[3] ELSE rg[2])}

\* --------------------------------------------------------------- Init
Init ==
  /\ script \in Scripts
  /\ pc = "start"
  /\ error = "none"
  /\ stdout = <<>>
  /\ file_exists \in BOOLEAN
  /\ saved = 0
  /\ posts = 0
  /\ status = 0
  /\ current_month_str = 0
  /\ data = <<>>
  /\ idx = 1
  /\ month_data = <<>>
  /\ monthly_income_expense = <<>>
  /\ summary_rows = <<>>
  /\ cutoff_row = 0
  /\ cf_ranges = {}
  /\ expense_by_category = <<>>
  /\ nrows = 0
  /\ last_nrows = 0
  /\ wedge_colors = <<>>
  /\ row_colors = <<>>
  /\ today = <<>>
  /\ compare_days = 0
  /\ this_rows = <<>>
  /\ last_rows = <<>>
  /\ this_data = <<>>
  /\ last_data = <<>>

\* ------------------------------------------------ g_latest_r: actions
\* main, line 238: data = fetch_data_from_db(DB_PATH)
FetchData ==
  /\ script = "g_latest_r"
  /\ pc = "start"
  /\ \E rows \in SeqsUpTo(Rows, MaxRows) : data' = rows
  /\ idx' = 1
  /\ pc' = "aggregate"
  /\ UNCHANGED <<script, error, stdout, ioVars, current_month_str, month_data,
                 monthly_income_expense, summary_rows, cutoff_row, cf_ranges,
                 expense_by_category, chartVars>>

AggregateRowSkipMalformed ==
  /\ script = "g_latest_r"
  /\ pc = "aggregate"
  /\ idx <= Len(data)
  /\ LET row == data[idx]
         month_str == MonthStr(row.created_at)
         known == month_str \in DOMAIN month_data
     IN IF ~StrptimeOk(row.created_at)
        THEN /\ idx' = idx + 1
             /\ UNCHANGED <<pc, error, month_data, monthly_income_expense>>
        ELSE /\ month_data' =
                  [m \in DOMAIN month_data \cup {month_str} |->
                     IF m = month_str
                     THEN (IF known THEN month_data[m] ELSE <<>>) \o <<row>>
                     ELSE month_data[m]]
             /\ monthly_income_expense' =
                  [m \in DOMAIN monthly_income_expense \cup {month_str} |->
                     IF m = month_str
                     THEN AddRow(IF known THEN monthly_income_expense[m]
                                 ELSE ZeroTotals, row)
                     ELSE monthly_income_expense[m]]
             /\ idx' = idx + 1
             /\ UNCHANGED <<pc, error>>
  /\ UNCHANGED <<script, stdout, ioVars, current_month_str, data,
                 summary_rows, cutoff_row, cf_ranges, expense_by_category,
                 chartVars>>

\* lines 97-120: one iteration of the aggregation loop; strptime raises
\* ValueError on a created_at that does not match the format
AggregateRow ==
  /\ script = "g_latest_r"
  /\ pc = "aggregate"
  /\ idx <= Len(data)
  /\ LET row == data[idx]
         month_str == MonthStr(row.created_at)
         known == month_str \in DOMAIN month_data
     IN IF ~StrptimeOk(row.created_at)
        THEN /\ pc' = "failed"
             /\ error' = "ValueError"
             /\ UNCHANGED <<idx, month_data, monthly_income_expense>>
        ELSE /\ month_data' =
                  [m \in DOMAIN month_data \cup {month_str} |->
                     IF m = month_str
                     THEN (IF known THEN month_data[m] ELSE <<>>) \o <<row>>
                     ELSE month_data[m]]
             /\ monthly_income_expense' =
                  [m \in DOMAIN monthly_income_expense \cup {month_str} |->
                     IF m = month_str
                     THEN AddRow(IF known THEN monthly_income_expense[m]
                                 ELSE ZeroTotals, row)
                     ELSE monthly_income_expense[m]]
             /\ idx' = idx + 1
             /\ UNCHANGED <<pc, error>>
  /\ UNCHANGED <<script, stdout, ioVars, current_month_str, data,
                 summary_rows, cutoff_row, cf_ranges, expense_by_category,
                 chartVars>>

\* lines 122-145: the Summary rows in ascending key order, then the cutoff
SummaryWritten(now) ==
  /\ script = "g_latest_r"
  /\ pc = "aggregate"
  /\ idx > Len(data)
  /\ current_month_str' = now
  /\ summary_rows' = SortedKeys(DOMAIN monthly_income_expense)
  /\ cutoff_row' = CutoffRow(summary_rows', now, 2, 1)

\* lines 122-160: the three colour-scale rules are added over
\* B2:B<cutoff_row>, C2:C<cutoff_row>, D2:D<cutoff_row>
FormatSummary ==
  /\ \E now \in NowMonths : SummaryWritten(now)
  /\ cf_ranges' = {<<col, 2, cutoff_row'>> : col \in {"B", "C", "D"}}
  /\ pc' = "details"
  /\ UNCHANGED <<script, error, stdout, ioVars, data, idx, month_data,
                 monthly_income_expense, expense_by_category, chartVars>>

\* line 158 when cutoff_row is 1: an openpyxl whose ConditionalFormatting
\* parses the string into a CellRange rejects "B2:B1" with ValueError (the
\* first row lies below the last); one that stores the string takes it, which
\* is FormatSummary
FormatSummaryRejected ==
  /\ \E now \in NowMonths : SummaryWritten(now)
  /\ cutoff_row' < 2
  /\ pc' = "failed"
  /\ error' = "ValueError"
  /\ UNCHANGED <<script, stdout, ioVars, data, idx, month_data,
                 monthly_income_expense, cf_ranges, expense_by_category,
                 chartVars>>

\* lines 162-217: the detail sheets with their category tables, the line
\* chart, and wb.save(report_file)
SaveReport ==
  /\ script = "g_latest_r"
  /\ pc = "details"
  /\ expense_by_category' =
       [m \in DOMAIN month_data |-> ExpenseByCategory(month_data[m])]
  /\ file_exists' = TRUE
  /\ saved' = saved + 1
  /\ pc' = "send"
  /\ UNCHANGED <<script, error, stdout, posts, status, current_month_str,
                 data, idx, month_data, monthly_income_expense, summary_rows,
                 cutoff_row, cf_ranges, chartVars>>

\* lines 219-231: requests.post, then response.raise_for_status()
SendReport ==
  /\ script = "g_latest_r"
  /\ pc = "send"
  /\ \E outcome \in PostOutcomes :
       /\ posts' = posts + 1
       /\ IF outcome = 0
          THEN /\ pc' = "failed"
               /\ error' = "ConnectionError"
               /\ UNCHANGED status
          ELSE /\ status' = outcome
               /\ IF outcome = 200
                  THEN pc' = "remove" /\ UNCHANGED error
                  ELSE pc' = "failed" /\ error' = "HTTPError"
  /\ UNCHANGED <<script, stdout, file_exists, saved, reportVars, chartVars>>

\* line 247: os.remove(report_file)
RemoveReport ==
  /\ script = "g_latest_r"
  /\ pc = "remove"
  /\ file_exists' = FALSE
  /\ pc' = "done"
  /\ UNCHANGED <<script, error, stdout, saved, posts, status, reportVars,
                 chartVars>>

\* ------------------------------------------------ chart scripts: helpers
\* len(pastel_colors), g_w_e_piechart.py lines 50-54
PaletteSize == 8

\* ax.pie(colors=pastel_colors[:len(totals)]): the slice holds at most
\* PaletteSize colours and the pie cycles through the colours it is given
WedgeColor(i, n) ==
  LET given == IF n < PaletteSize THEN n ELSE PaletteSize
  IN ((i - 1) % given) + 1

\* one POST of a chart script: the response is kept, and the status is
\* printed by the scripts that check it
Post(outcome) ==
  /\ posts' = posts + 1
  /\ IF outcome = 0
     THEN /\ pc' = "failed"
          /\ error' = "ConnectionError"
          /\ UNCHANGED <<status, stdout>>
     ELSE /\ status' = outcome
          /\ UNCHANGED error

\* ------------------------------------------- g_w_e_piechart: actions
\* lines 36-42: the query, and the exit when it returns no row
PieQuery ==
  /\ script = "g_w_e_piechart"
  /\ pc = "start"
  /\ \E n \in 0..MaxCategories :
       /\ nrows' = n
       /\ IF n = 0
          THEN /\ stdout' = Append(stdout, "No expense data for the last 7 days")
               /\ pc' = "done"
          ELSE /\ pc' = "render"
               /\ UNCHANGED stdout
  /\ UNCHANGED <<script, error, ioVars, reportVars, last_nrows, wedge_colors,
                 row_colors, stackVars>>

\* lines 44-125: the wedges, then the loop over the table cells; the cell of
\* column 0 in row r > 0 reads pastel_colors[r-1], an IndexError once r-1
\* reaches the length of the palette
PieRender ==
  /\ script = "g_w_e_piechart"
  /\ pc = "render"
  /\ wedge_colors' = [i \in 1..nrows |-> WedgeColor(i, nrows)]
  /\ IF nrows > PaletteSize
     THEN /\ row_colors' = [r \in 1..PaletteSize |-> r]
          /\ pc' = "failed"
          /\ error' = "IndexError"
     ELSE /\ row_colors' = [r \in 1..nrows |-> r]
          /\ pc' = "save"
          /\ UNCHANGED error
  /\ UNCHANGED <<script, stdout, ioVars, reportVars, nrows, last_nrows,
                 stackVars>>

\* lines 128-130: plt.savefig(IMAGE_PATH)
PieSave ==
  /\ script = "g_w_e_piechart"
  /\ pc = "save"
  /\ file_exists' = TRUE
  /\ saved' = saved + 1
  /\ pc' = "send"
  /\ UNCHANGED <<script, error, stdout, posts, status, reportVars, chartVars>>

\* lines 133-148: the POST and the printed status; the script ends here
PieSend ==
  /\ script = "g_w_e_piechart"
  /\ pc = "send"
  /\ \E outcome \in PostOutcomes :
       /\ Post(outcome)
       /\ outcome # 0 =>
            /\ pc' = "done"
            /\ stdout' = Append(stdout,
                 IF outcome = 200 THEN "Successfully sent chart to Telegram"
                 ELSE "Failed to send chart to Telegram:")
  /\ UNCHANGED <<script, file_exists, saved, reportVars, chartVars>>

\* ------------------------------------------ g_stack_a_chart: helpers
\* the dates datetime.now() is drawn from, as <<year, month, day>>
Todays == {<<2026, 3, 31>>, <<2024, 3, 30>>, <<2026, 1, 31>>, <<2026, 3, 15>>}

\* the days of month the stored expense rows fall on
RowDays == {1, 15, 29, 30, 31}

IsLeap(y) == (y % 4 = 0 /\ y % 100 # 0) \/ y % 400 = 0

\* calendar.monthrange(year, month)[1]
DaysInMonth(y, m) ==
  IF m = 2 THEN (IF IsLeap(y) THEN 29 ELSE 28)
  ELSE IF m \in {4, 6, 9, 11} THEN 30 ELSE 31

\* lines 31-36: <<last_year, last_month>>
LastMonthOf(y, m) == IF m = 1 THEN <<y - 1, 12>> ELSE <<y, m - 1>>

\* lines 38-39: compare_days = min(this_day, last_month_days)
CompareDays(t) ==
  LET lm == LastMonthOf(t[1], t[2])
      last_month_days == DaysInMonth(lm[1], lm[2])
  IN IF t[3] <= last_month_days THEN t[3] ELSE last_month_days

\* lines 41-44: month_range builds datetime(year, month, 1) and
\* datetime(year, month, days, 23, 59, 59); the constructor raises ValueError
\* on a day the month does not have. The window is days 1..days of the month.
MonthRangeOk(y, m, days) == days >= 1 /\ days <= DaysInMonth(y, m)

\* lines 54-65: the rows QUERY can return for the window of days 1..days of a
\* month: one (day, category, SUM(amount)) row per day and category, ORDER BY
\* day, every day between the window's start and end
WindowRows(days) ==
  {rs \in SeqsUpTo([day : {d \in RowDays : d <= days},
                    category : Categories, total : Amounts], MaxWindowRows) :
     \A i \in 1..Len(rs), j \in 1..Len(rs) :
       i < j => /\ rs[i].day <= rs[j].day
                /\ <<rs[i].day, rs[i].category>> # <<rs[j].day, rs[j].category>>}

RECURSIVE build_category_data(_, _)
\* lines 83-90: days is list(range(1, n + 1)), so day_idx[d] is d - 1 and the
\* series of a category is indexed here by the day itself; a row whose day is
\* not in day_idx is passed over, and only a stored row gives its category a key
build_category_data(rows, n) ==
  IF rows = <<>> THEN <<>>
  ELSE LET k == Len(rows)
           acc == build_category_data(SubSeq(rows, 1, k - 1), n)
           row == rows[k]
       IN IF row.day \in 1..n
          THEN [c \in DOMAIN acc \cup {row.category} |->
                  [d \in 1..n |->
                     IF c = row.category /\ d = row.day THEN row.total
                     ELSE IF c \in DOMAIN acc THEN acc[c][d] ELSE 0]]
          ELSE acc

\* ------------------------------------------ g_stack_a_chart: actions
\* lines 23-77: the date logic, both window queries (this month up to
\* this_day, last month up to compare_days), and the exit when both return
\* no row
StackQuery ==
  /\ script = "g_stack_a_chart"
  /\ pc = "start"
  /\ \E t \in Todays :
       LET lm == LastMonthOf(t[1], t[2])
           cd == CompareDays(t)
       IN /\ today' = t
          /\ compare_days' = cd
          /\ IF ~(MonthRangeOk(t[1], t[2], t[3]) /\ MonthRangeOk(lm[1], lm[2], cd))
             THEN /\ pc' = "failed"
                  /\ error' = "ValueError"
                  /\ UNCHANGED <<stdout, nrows, last_nrows, this_rows, last_rows>>
             ELSE \E tr \in WindowRows(t[3]), lr \in WindowRows(cd) :
                    /\ this_rows' = tr
                    /\ last_rows' = lr
                    /\ nrows' = Len(tr)
                    /\ last_nrows' = Len(lr)
                    /\ UNCHANGED error
                    /\ IF tr = <<>> /\ lr = <<>>
                       THEN /\ stdout' = Append(stdout, "No data found")
                            /\ pc' = "done"
                       ELSE /\ pc' = "save"
                            /\ UNCHANGED stdout
  /\ UNCHANGED <<script, ioVars, reportVars, wedge_colors, row_colors,
                 this_data, last_data>>

\* lines 81-154: the series of both periods over days 1..compare_days, the
\* two stack plots and plt.savefig(IMAGE_PATH)
StackSave ==
  /\ script = "g_stack_a_chart"
  /\ pc = "save"
  /\ this_data' = build_category_data(this_rows, compare_days)
  /\ last_data' = build_category_data(last_rows, compare_days)
  /\ file_exists' = TRUE
  /\ saved' = saved + 1
  /\ pc' = "send"
  /\ UNCHANGED <<script, error, stdout, posts, status, reportVars, nrows,
                 last_nrows, wedge_colors, row_colors, today, compare_days,
                 this_rows, last_rows>>

\* lines 157-172: the POST and the printed status; the script ends here
StackSend ==
  /\ script = "g_stack_a_chart"
  /\ pc = "send"
  /\ \E outcome \in PostOutcomes :
       /\ Post(outcome)
       /\ outcome # 0 =>
            /\ pc' = "done"
            /\ stdout' = Append(stdout,
                 IF outcome = 200 THEN "Successfully sent chart to Telegram"
                 ELSE "Failed to send chart to Telegram:")
  /\ UNCHANGED <<script, file_exists, saved, reportVars, chartVars>>

\* --------------------------------------------- g_weekly_e_r: actions
\* lines 35-37: the query; nothing tests whether it returned a row
WeeklyQuery ==
  /\ script = "g_weekly_e_r"
  /\ pc = "start"
  /\ \E n \in 0..MaxWindowRows : nrows' = n
  /\ pc' = "save"
  /\ UNCHANGED <<script, error, stdout, ioVars, reportVars, last_nrows,
                 wedge_colors, row_colors, stackVars>>

\* lines 40-70: the zero-filled series of seven days, the chart and
\* plt.savefig(output_path)
WeeklySave ==
  /\ script = "g_weekly_e_r"
  /\ pc = "save"
  /\ file_exists' = TRUE
  /\ saved' = saved + 1
  /\ pc' = "send"
  /\ UNCHANGED <<script, error, stdout, posts, status, reportVars, chartVars>>

\* lines 73-78: the POST; the response is not looked at
WeeklySend ==
  /\ script = "g_weekly_e_r"
  /\ pc = "send"
  /\ \E outcome \in PostOutcomes :
       /\ Post(outcome)
       /\ outcome # 0 => (pc' = "remove" /\ UNCHANGED stdout)
  /\ UNCHANGED <<script, file_exists, saved, reportVars, chartVars>>

\* lines 81-82: if os.path.exists(output_path): os.remove(output_path)
WeeklyRemove ==
  /\ script = "g_weekly_e_r"
  /\ pc = "remove"
  /\ file_exists' = (IF file_exists THEN FALSE ELSE file_exists)
  /\ pc' = "done"
  /\ UNCHANGED <<script, error, stdout, saved, posts, status, reportVars,
                 chartVars>>

\* ------------------------------------------------------- specification
Next ==
  \/ FetchData
  \/ AggregateRow
  \/ FormatSummary
  \/ FormatSummaryRejected
  \/ SaveReport
  \/ SendReport
  \/ RemoveReport
  \/ PieQuery
  \/ PieRender
  \/ PieSave
  \/ PieSend
  \/ StackQuery
  \/ StackSave
  \/ StackSend
  \/ WeeklyQuery
  \/ WeeklySave
  \/ WeeklySend
  \/ WeeklyRemove

Spec == Init /\ [][Next]_vars

\* ------------------------------------------------- reference quantities
RECURSIVE SumFun(_)
\* the sum of the values of a function with a finite domain
SumFun(f) ==
  IF DOMAIN f = {} THEN 0
  ELSE LET x == CHOOSE y \in DOMAIN f : TRUE
       IN f[x] + SumFun([y \in DOMAIN f \ {x} |-> f[y]])

\* the rows of data the aggregation loop has gone through
Processed == 1..(idx - 1)

\* the amounts of a set of row positions
AmountsAt(I) == [i \in I |-> data[i].amount]

ExpensesOf(m) ==
  {i \in Processed : data[i].type = "expense"
                     /\ MonthStr(data[i].created_at) = m}

CleanExpensesOf(m, c) ==
  {i \in ExpensesOf(m) : data[i].category = c /\ data[i].is_outlier # <<1>>}

ReportBuilt == script = "g_latest_r" /\ saved > 0

\* ----------------------------------------------------------------- C1
\* C1: once the detail sheets are built, every month's category subtotals
\* sum to that month's expense_clean total, and each subtotal is the sum of
\* the month's expenses of that category whose flag is not 1 (a category
\* with no such expense has no entry).
C1_BreakdownMatchesClean ==
  ReportBuilt =>
    /\ DOMAIN expense_by_category = DOMAIN monthly_income_expense
    /\ \A m \in DOMAIN expense_by_category :
         /\ SumFun(expense_by_category[m])
              = monthly_income_expense[m].expense_clean
         /\ DOMAIN expense_by_category[m]
              = {c \in Categories : CleanExpensesOf(m, c) # {}}
         /\ \A c \in DOMAIN expense_by_category[m] :
              expense_by_category[m][c]
                = SumFun(AmountsAt(CleanExpensesOf(m, c)))

\* a month holding an outlier expense next to a clean one
C1_Witness ==
  /\ ReportBuilt
  /\ \E m \in DOMAIN expense_by_category :
       /\ monthly_income_expense[m].expense_outlier > 0
       /\ monthly_income_expense[m].expense_clean > 0
       /\ DOMAIN expense_by_category[m] # {}

\* ----------------------------------------------------------------- C2
\* C2: for every month key, expense_clean + expense_outlier is the sum of
\* the amounts of the expense rows of that month gone through so far, and
\* every such row's month has a key: income adds nothing, no expense is
\* dropped or counted twice.
C2_ExpenseTotals ==
  script = "g_latest_r" =>
    /\ \A m \in DOMAIN monthly_income_expense :
         monthly_income_expense[m].expense_clean
           + monthly_income_expense[m].expense_outlier
           = SumFun(AmountsAt(ExpensesOf(m)))
    /\ \A i \in Processed :
         MonthStr(data[i].created_at) \in DOMAIN monthly_income_expense

\* the loop is over and one month holds an outlier expense next to an
\* income row
C2_Witness ==
  /\ script = "g_latest_r"
  /\ pc = "details"
  /\ \E m \in DOMAIN monthly_income_expense :
       /\ monthly_income_expense[m].expense_outlier > 0
       /\ monthly_income_expense[m].income > 0

\* ----------------------------------------------------------------- C3
\* C3: the per-month income totals, summed over all month keys, equal the
\* sum of the amounts of the income rows gone through so far, whatever
\* their outlier flag.
C3_IncomeTotals ==
  script = "g_latest_r" =>
    SumFun([m \in DOMAIN monthly_income_expense |->
              monthly_income_expense[m].income])
      = SumFun(AmountsAt({i \in Processed : data[i].type = "income"}))

\* the loop is over, two months hold income and one income row is flagged
C3_Witness ==
  /\ script = "g_latest_r"
  /\ pc = "details"
  /\ Cardinality({m \in DOMAIN monthly_income_expense :
                    monthly_income_expense[m].income > 0}) = 2
  /\ \E i \in Processed :
       data[i].type = "income" /\ data[i].is_outlier = <<1>>

\* ----------------------------------------------------------------- C4
ChartScripts == {"g_stack_a_chart", "g_w_e_piechart", "g_weekly_e_r"}

\* the window queries of a chart script ran and returned no row at all
NoRowsReturned ==
  script \in ChartScripts /\ pc # "start" /\ nrows = 0 /\ last_nrows = 0

\* C4: in every chart script, a run whose query returned zero rows writes no
\* artifact, makes no POST, and terminates normally after printing a
\* diagnostic.
C4_NoDataNoArtifact ==
  NoRowsReturned =>
    /\ saved = 0
    /\ posts = 0
    /\ Terminated => (pc = "done" /\ stdout # <<>>)

\* ----------------------------------------------------------------- C5
\* C5: in the monthly report script, a run that fetched zero rows has empty
\* mappings, writes no artifact, makes no POST, and terminates cleanly.
C5_EmptyReportNoData ==
  (script = "g_latest_r" /\ pc # "start" /\ data = <<>>) =>
    /\ DOMAIN month_data = {}
    /\ DOMAIN monthly_income_expense = {}
    /\ saved = 0
    /\ posts = 0
    /\ Terminated => (pc = "done" /\ error = "none")

\* ----------------------------------------------------------------- C6
MalformedAt == {i \in 1..Len(data) : ~StrptimeOk(data[i].created_at)}

\* C6: in the monthly report script, when a fetched row has a created_at
\* that does not parse, the loop never goes past the first such row, no
\* report file is written, no POST is made, and the run can only terminate
\* by the propagated ValueError.
C6_MalformedAborts ==
  (script = "g_latest_r" /\ MalformedAt # {}) =>
    /\ \A i \in MalformedAt : idx <= i
    /\ saved = 0
    /\ posts = 0
    /\ pc \in {"aggregate", "failed"}
    /\ pc = "failed" => error = "ValueError"

\* the run failed on a malformed second row, after the first was bucketed
C6_Witness ==
  /\ script = "g_latest_r"
  /\ pc = "failed"
  /\ error = "ValueError"
  /\ MalformedAt = {2}
  /\ idx = 2
  /\ DOMAIN month_data # {}

\* ----------------------------------------------------------------- C7
\* C7: in every script, a run that wrote the artifact, got status 200 from
\* the POST and terminated has left no artifact file behind.
C7_RemovedOnSuccess ==
  (saved > 0 /\ status = 200 /\ Terminated) => ~file_exists

\* ----------------------------------------------------------------- C8
FailurePrinted ==
  \E k \in 1..Len(stdout) : stdout[k] = "Failed to send chart to Telegram:"

\* C8: in every script, a run whose POST returned a non-success status and
\* that terminated either aborted with the propagated HTTP failure, or
\* printed the failure and removed the artifact.
C8_DeliveryFailure ==
  (status \notin {0, 200} /\ Terminated) =>
    \/ pc = "failed" /\ error = "HTTPError"
    \/ pc = "done" /\ FailurePrinted /\ ~file_exists

\* ----------------------------------------------------------------- C9
\* the Summary rows (sheet rows 2..max_row) whose month key is not later
\* than the current month
RowsUpToNow ==
  {r \in 2..(Len(summary_rows) + 1) : summary_rows[r - 1] <= current_month_str}

\* C9: once the cutoff is computed, the three colour-scale rules are given
\* ranges over columns B, C and D, and each range covers exactly the Summary rows whose month key is <= the current month key:
\* no later row and not the header row.
C9_ColourScaleRows ==
  (script = "g_latest_r" /\ cutoff_row # 0) =>
    /\ {rg[1] : rg \in cf_ranges} = {"B", "C", "D"}
    /\ \A rg \in cf_ranges : RangeRows(rg) = RowsUpToNow

\* ---------------------------------------------------------------- C10
\* C10: in the donut script, for every n >= 1 categories, once the table
\* loop is over every table row i in 1..n has the colour of wedge i, and
\* the run goes on to save the image and make the POST.
C10_RowsMatchWedges ==
  (script = "g_w_e_piechart" /\ nrows >= 1 /\ pc \notin {"start", "render"}) =>
    /\ error # "IndexError"
    /\ DOMAIN row_colors = 1..nrows
    /\ \A i \in 1..nrows : row_colors[i] = wedge_colors[i]
    /\ Terminated => (saved = 1 /\ posts = 1)

\* ---------------------------------------------------------------- C11
\* a fetched row is in the plotted series of its period
Plotted(row, series) ==
  /\ row.day \in 1..compare_days
  /\ row.category \in DOMAIN series
  /\ series[row.category][row.day] = row.total

\* C11: in the stacked comparison script, once the series are built,
\* compare_days is min(today's day, days of the previous month), no window
\* end date was rejected, and every row fetched for either period has its
\* day in 1..compare_days and sits in the plotted series of its period.
C11_NoFetchedRowDropped ==
  (script = "g_stack_a_chart" /\ pc # "start") =>
    /\ error # "ValueError"
    /\ compare_days = CompareDays(today)
    /\ saved > 0 =>
         /\ \A i \in 1..Len(this_rows) : Plotted(this_rows[i], this_data)
         /\ \A i \in 1..Len(last_rows) : Plotted(last_rows[i], last_data)

====
